---- MODULE Spec2Model ----
(***************************************************************************)
(* LeanIt front end: the insight triage engine.                            *)
(*                                                                         *)
(*   useAnalysis            hooks/useAnalysis   the analysis request and   *)
(*                                              its simulated progress     *)
(*   CardStack              CardStack.tsx       cursor ("swipe") mode      *)
(*   useInsightInteraction  hooks/useInsight... filter ("list") mode       *)
(*                                                                         *)
(*   ResultsView            ResultsView.tsx     mounts one of the modes    *)
(*   SwipeableCard          SwipeableCard.tsx   the release of a drag      *)
(*   InsightsSection        InsightsSection.tsx the list's buttons         *)
(*   Home                   app page            the form, the loader and   *)
(*                                              ResultsView on one hook    *)
(*                                                                         *)
(* Each part has its own specification (SpecAnalysis, SpecCard, SpecList,  *)
(* SpecResults, SpecSwipe, SpecHome) over the same variables; a part's     *)
(* specification leaves the variables of the other parts unchanged.        *)
(* SpecAnalysisFair is SpecAnalysis with the event loop's fairness, and    *)
(* SpecView is ResultsView with its view switches remembered.              *)
(***************************************************************************)
EXTENDS Integers, Sequences, FiniteSets, TLC

VARIABLES
    \* ---- useAnalysis (React state of the hook)
    result,             \* AnalysisResponse | null
    isLoading,          \* boolean
    error,              \* string | null
    errorCode,          \* string | null
    progress,           \* AnalysisProgress {step, message, percent}
    calls,              \* the invocations of analyze(): each one's position in
                        \* the async function, its interval and its closure's
                        \* progressIndex
    \* ---- ResultsView (React state of the component)
    viewMode,           \* 'swipe' | 'list'
    discarded,          \* history: the modes that were unmounted with a state
                        \* other than their initial one
    \* ---- props of CardStack / useInsightInteraction
    topInsights,        \* Insight[]
    additionalInsights, \* Insight[]
    \* ---- CardStack (React state of the component)
    currentIndex,
    showingAdditional,
    skippedInsights,
    savedInsights,
    selectedInsight,
    lastAction,
    cardOps,            \* history: the handlers run last (at most HistoryDepth)
    nDecide,            \* history: number of decisions taken since mount
    nUndo,              \* history: number of undos run since mount (saturating)
    released,           \* history: the PanInfo (offset.x, velocity.x) of the
                        \* drag release that was the last event, with the
                        \* state of CardStack before it; null otherwise
    \* ---- useInsightInteraction (React state of the hook)
    skippedIds,
    expandedId,
    listShowingAdditional,
    lastSkippedId,
    listOp,             \* history: the last operation called and its argument
    listPrev            \* history: the hook's state before that operation

analysisVars == <<result, isLoading, error, errorCode, progress, calls>>
deckVars     == <<topInsights, additionalInsights>>
cardVars     == <<currentIndex, showingAdditional, skippedInsights, savedInsights,
                  selectedInsight, lastAction, cardOps, nDecide, nUndo>>
listVars     == <<skippedIds, expandedId, listShowingAdditional, lastSkippedId,
                  listOp, listPrev>>
viewVars     == <<viewMode, discarded>>
vars         == <<analysisVars, viewVars, deckVars, cardVars, released, listVars>>

nonAnalysisVars == <<viewVars, deckVars, cardVars, released, listVars>>
hostVars        == <<analysisVars, viewVars, deckVars, listVars>>
nonCardVars     == <<hostVars, released>>
nonListVars     == <<analysisVars, viewVars, deckVars, cardVars, released>>

\* A nullable value is a sequence of length at most one: null is the empty
\* sequence and a value v is <<v>>.
null    == <<>>
Just(v) == <<v>>

-----------------------------------------------------------------------------
(* Bounds of the model *)

MaxCalls      == 2    \* invocations of analyze() in one behaviour
MaxTop        == 2    \* longest primary tier
MaxCardTop    == 4    \* longest primary tier of the decks CardStack alone is
                      \* run on: longer than the window of 3 stacked cards
MaxAdditional == 1    \* longest secondary tier
MaxHomeTop    == 1    \* longest primary tier of the responses shown by Home

-----------------------------------------------------------------------------
(* useAnalysis *)

initialProgress == [step |-> "idle", message |-> "", percent |-> 0]

progressSteps ==
    [idle       |-> [message |-> "", percent |-> 0],
     fetching   |-> [message |-> "Fetching video information...", percent |-> 10],
     transcript |-> [message |-> "Getting transcript...", percent |-> 25],
     analyzing  |-> [message |-> "Analyzing content...", percent |-> 50],
     generating |-> [message |-> "Generating insights...", percent |-> 75],
     complete   |-> [message |-> "Done!", percent |-> 100]]

\* { ...progressSteps[step], step }
ProgressOf(step) ==
    [step |-> step, message |-> progressSteps[step].message,
     percent |-> progressSteps[step].percent]

progressUpdates == <<"transcript", "analyzing", "generating">>

\* The response call i resolves with.
ResponseOf(i) == [response |-> i]

\* What analyzeVideo may reject with: an ApiError without or with details, a
\* plain Error, or anything else.
Rejections ==
    { [kind |-> "ApiError", message |-> "Failed to analyze video",
       errorCode |-> "TRANSCRIPT_UNAVAILABLE", details |-> null],
      [kind |-> "ApiError", message |-> "Failed to analyze video",
       errorCode |-> "TRANSCRIPT_UNAVAILABLE", details |-> Just("no captions")],
      [kind |-> "Error", message |-> "Failed to fetch",
       errorCode |-> "", details |-> null],
      [kind |-> "other", message |-> "",
       errorCode |-> "", details |-> null] }

\* The catch block's errorMessage and code; a message is the sequence of the
\* strings it is concatenated from.
errorMessage(err) ==
    IF err.kind = "ApiError"
    THEN IF err.details # null
         THEN <<err.message, ": ", err.details[1]>>
         ELSE <<err.message>>
    ELSE IF err.kind = "Error"
         THEN <<err.message>>
         ELSE <<"An unexpected error occurred">>

code(err) == IF err.kind = "ApiError" THEN err.errorCode ELSE "UNKNOWN_ERROR"

InitAnalysis ==
    /\ result = null
    /\ isLoading = FALSE
    /\ error = null
    /\ errorCode = null
    /\ progress = initialProgress
    /\ calls = <<>>

\* analyze(url), up to its first await: the state is reset, the interval is
\* created and the request is sent.
analyze ==
    /\ Len(calls) < MaxCalls
    /\ isLoading' = TRUE
    /\ error' = null
    /\ errorCode' = null
    /\ result' = null
    /\ progress' = ProgressOf("fetching")
    /\ calls' = Append(calls, [pc |-> "awaitApi", interval |-> TRUE, progressIndex |-> 0])

\* The interval's callback ending the loading state as well.
progressInterval_endsLoading(i) ==
    /\ calls[i].interval
    /\ IF calls[i].progressIndex < Len(progressUpdates)
       THEN /\ progress' = ProgressOf(progressUpdates[calls[i].progressIndex + 1])
            /\ calls' = [calls EXCEPT ![i].progressIndex = @ + 1]
            /\ isLoading' = FALSE
       ELSE UNCHANGED <<progress, calls, isLoading>>
    /\ UNCHANGED <<result, error, errorCode>>

\* The callback of call i's setInterval fires.
progressInterval(i) ==
    /\ calls[i].interval
    /\ IF calls[i].progressIndex < Len(progressUpdates)
       THEN /\ progress' = ProgressOf(progressUpdates[calls[i].progressIndex + 1])
            /\ calls' = [calls EXCEPT ![i].progressIndex = @ + 1]
       ELSE UNCHANGED <<progress, calls>>
    /\ UNCHANGED <<result, isLoading, error, errorCode>>

\* await analyzeVideo(url) resolves: clearInterval, progress complete, and the
\* 500 ms timeout is awaited.
analyzeResolved(i) ==
    /\ calls[i].pc = "awaitApi"
    /\ calls' = [calls EXCEPT ![i].pc = "hold", ![i].interval = FALSE]
    /\ progress' = ProgressOf("complete")
    /\ UNCHANGED <<result, isLoading, error, errorCode>>

\* The 500 ms timeout firing with a finally block that leaves isLoading set.
holdElapsed_keepsLoading(i) ==
    /\ calls[i].pc = "hold"
    /\ result' = Just(ResponseOf(i))
    /\ calls' = [calls EXCEPT ![i].pc = "done"]
    /\ UNCHANGED <<isLoading, error, errorCode, progress>>

\* The 500 ms timeout fires: setResult(response), then finally.
holdElapsed(i) ==
    /\ calls[i].pc = "hold"
    /\ result' = Just(ResponseOf(i))
    /\ isLoading' = FALSE
    /\ calls' = [calls EXCEPT ![i].pc = "done"]
    /\ UNCHANGED <<error, errorCode, progress>>

\* await analyzeVideo(url) rejects: catch, then finally.  The interval is a
\* const of the try block and the catch block does not clear it.
analyzeRejected(i, err) ==
    /\ calls[i].pc = "awaitApi"
    /\ error' = Just(errorMessage(err))
    /\ errorCode' = Just(code(err))
    /\ progress' = initialProgress
    /\ isLoading' = FALSE
    /\ calls' = [calls EXCEPT ![i].pc = "failed"]
    /\ UNCHANGED result

reset ==
    /\ result' = null
    /\ error' = null
    /\ errorCode' = null
    /\ progress' = initialProgress
    /\ UNCHANGED <<isLoading, calls>>

NextAnalysis ==
    \/ analyze /\ UNCHANGED nonAnalysisVars
    \/ \E i \in DOMAIN calls : progressInterval(i) /\ UNCHANGED nonAnalysisVars
    \/ \E i \in DOMAIN calls : analyzeResolved(i) /\ UNCHANGED nonAnalysisVars
    \/ \E i \in DOMAIN calls : holdElapsed(i) /\ UNCHANGED nonAnalysisVars
    \/ \E i \in DOMAIN calls, err \in Rejections : analyzeRejected(i, err) /\ UNCHANGED nonAnalysisVars
    \/ reset /\ UNCHANGED nonAnalysisVars

ActiveTimers == {i \in DOMAIN calls : calls[i].interval}

\* The promise of analyzeVideo(url) of call i settles, one way or the other.
Settles(i) ==
    /\ i \in DOMAIN calls
    /\ \/ analyzeResolved(i)
       \/ \E err \in Rejections : analyzeRejected(i, err)
    /\ UNCHANGED nonAnalysisVars

\* The 500 ms timeout of call i fires.
HoldFires(i) ==
    /\ i \in DOMAIN calls
    /\ holdElapsed(i)
    /\ UNCHANGED nonAnalysisVars

\* A pending request settles and a pending timeout fires: the browser's
\* event loop runs every callback that is due.
FairAnalysis ==
    \A i \in 1..MaxCalls : WF_vars(Settles(i)) /\ WF_vars(HoldFires(i))

-----------------------------------------------------------------------------
(* The deck: the props topInsights and additionalInsights *)

\* An Insight; rank is 1-based and dense over both tiers, ids are unique.
Insight(id, rank, deep_dive_content) ==
    [id |-> id, rank |-> rank, deep_dive_content |-> deep_dive_content]

\* What indexing an array outside its bounds gives (JavaScript's undefined),
\* as a value comparable with an Insight.
undefined == [id |-> "undefined", rank |-> 0, deep_dive_content |-> null]

TopIds        == <<"A", "B", "T3", "T4", "T5", "T6">>
AdditionalIds == <<"C", "D", "S3", "S4">>

\* deep_dive_content is DeepDiveContent | null: every other insight of a result
\* comes without one, those of even rank under parity 0 and those of odd rank
\* under parity 1.
DeepDiveOf(rank, parity) ==
    IF (rank + parity) % 2 = 1 THEN Just("extended_explanation") ELSE null

TopTier(n, parity) ==
    [k \in 1..n |-> Insight(TopIds[k], k, DeepDiveOf(k, parity))]
AdditionalTier(n, m, parity) ==
    [k \in 1..m |-> Insight(AdditionalIds[k], n + k, DeepDiveOf(n + k, parity))]

\* The tiers of a result whose primary tier has at most maxTop insights.
DeckUpTo(maxTop) ==
    \E n \in 0..maxTop, m \in 0..MaxAdditional, parity \in 0..1 :
        /\ topInsights = TopTier(n, parity)
        /\ additionalInsights = AdditionalTier(n, m, parity)

InitDeck == DeckUpTo(MaxTop)

\* Array.prototype.slice(from) and slice(0, n) for 0 <= from, n
SliceFrom(arr, from) == SubSeq(arr, from + 1, Len(arr))
SliceTo(arr, n) == SubSeq(arr, 1, IF n < Len(arr) THEN n ELSE Len(arr))
\* Array.prototype.slice(0, -1)
DropLast(arr) == SubSeq(arr, 1, Len(arr) - 1)
\* arr[i], 0-based
At(arr, i) == IF i \in 0..(Len(arr) - 1) THEN arr[i + 1] ELSE undefined

IdsOf(arr) == {arr[k].id : k \in DOMAIN arr}

-----------------------------------------------------------------------------
(* CardStack: cursor mode *)

\* The component's React state as one value.
CardState ==
    [currentIndex      |-> currentIndex,
     showingAdditional |-> showingAdditional,
     skippedInsights   |-> skippedInsights,
     savedInsights     |-> savedInsights,
     selectedInsight   |-> selectedInsight,
     lastAction        |-> lastAction]

InitialCardState ==
    [currentIndex      |-> 0,
     showingAdditional |-> FALSE,
     skippedInsights   |-> <<>>,
     savedInsights     |-> <<>>,
     selectedInsight   |-> null,
     lastAction        |-> null]

allInsights(s) ==
    IF s.showingAdditional THEN topInsights \o additionalInsights ELSE topInsights

remainingInsights(s) == SliceFrom(allInsights(s), s.currentIndex)

\* visibleCards without its slice(0, 3).
visibleCards_whole(s) == remainingInsights(s)

visibleCards(s) == SliceTo(remainingInsights(s), 3)

\* isFinished with > for >=.
isFinished_strict(s) == s.currentIndex > Len(allInsights(s))

isFinished(s) == s.currentIndex >= Len(allInsights(s))
hasMoreToShow(s) == ~s.showingAdditional /\ Len(additionalInsights) > 0

\* handleSwipeLeft storing its decision as a save.
handleSwipeLeft_storesSave(s) ==
    LET skipped == At(allInsights(s), s.currentIndex) IN
    [s EXCEPT !.skippedInsights = Append(@, skipped),
              !.lastAction = Just([type |-> "save", insight |-> skipped]),
              !.currentIndex = @ + 1]

\* The handlers, as the state they leave from state s.
handleSwipeLeft(s) ==
    LET skipped == At(allInsights(s), s.currentIndex) IN
    [s EXCEPT !.skippedInsights = Append(@, skipped),
              !.lastAction = Just([type |-> "skip", insight |-> skipped]),
              !.currentIndex = @ + 1]

\* handleSwipeRight opening the sheet only for an insight with a deep dive.
handleSwipeRight_needsDeepDive(s) ==
    LET saved == At(allInsights(s), s.currentIndex) IN
    [s EXCEPT !.savedInsights = Append(@, saved),
              !.lastAction = Just([type |-> "save", insight |-> saved]),
              !.selectedInsight = IF saved.deep_dive_content # null THEN Just(saved) ELSE @,
              !.currentIndex = @ + 1]

\* handleSwipeRight without its setCurrentIndex.
handleSwipeRight_noAdvance(s) ==
    LET saved == At(allInsights(s), s.currentIndex) IN
    [s EXCEPT !.savedInsights = Append(@, saved),
              !.lastAction = Just([type |-> "save", insight |-> saved]),
              !.selectedInsight = Just(saved)]

handleSwipeRight(s) ==
    LET saved == At(allInsights(s), s.currentIndex) IN
    [s EXCEPT !.savedInsights = Append(@, saved),
              !.lastAction = Just([type |-> "save", insight |-> saved]),
              !.selectedInsight = Just(saved),
              !.currentIndex = @ + 1]

\* handleUndo trimming the skipped record whatever the stored decision's type.
handleUndo_ignoresType(s) ==
    IF s.lastAction # null /\ s.currentIndex > 0
    THEN [s EXCEPT !.currentIndex = @ - 1,
                   !.skippedInsights = DropLast(@),
                   !.lastAction = null]
    ELSE s

\* handleUndo rewinding the cursor with both records left as they are.
handleUndo_keepsRecords(s) ==
    IF s.lastAction # null /\ s.currentIndex > 0
    THEN [s EXCEPT !.currentIndex = @ - 1,
                   !.lastAction = null]
    ELSE s

\* handleUndo closing the sheet as well.
handleUndo_closesSheet(s) ==
    IF s.lastAction # null /\ s.currentIndex > 0
    THEN IF s.lastAction[1].type = "skip"
         THEN [s EXCEPT !.currentIndex = @ - 1,
                        !.skippedInsights = DropLast(@),
                        !.selectedInsight = null,
                        !.lastAction = null]
         ELSE [s EXCEPT !.currentIndex = @ - 1,
                        !.savedInsights = DropLast(@),
                        !.selectedInsight = null,
                        !.lastAction = null]
    ELSE s

\* handleUndo without its setLastAction(null).
handleUndo_keepsLastAction(s) ==
    IF s.lastAction # null /\ s.currentIndex > 0
    THEN IF s.lastAction[1].type = "skip"
         THEN [s EXCEPT !.currentIndex = @ - 1,
                        !.skippedInsights = DropLast(@)]
         ELSE [s EXCEPT !.currentIndex = @ - 1,
                        !.savedInsights = DropLast(@)]
    ELSE s

handleUndo(s) ==
    IF s.lastAction # null /\ s.currentIndex > 0
    THEN IF s.lastAction[1].type = "skip"
         THEN [s EXCEPT !.currentIndex = @ - 1,
                        !.skippedInsights = DropLast(@),
                        !.lastAction = null]
         ELSE [s EXCEPT !.currentIndex = @ - 1,
                        !.savedInsights = DropLast(@),
                        !.lastAction = null]
    ELSE s

\* handleShowMore starting the deck over.
handleShowMore_resetsCursor(s) ==
    [s EXCEPT !.showingAdditional = TRUE,
              !.currentIndex = 0]

handleShowMore(s) == [s EXCEPT !.showingAdditional = TRUE]

\* What CardStack's DeepDiveSheet renders: nothing without an insight,
\* otherwise the sheet of that insight with the deep dive it has or has not.
isOpen(s) == s.selectedInsight # null

DeepDiveSheet(s) ==
    IF s.selectedInsight = null
    THEN null
    ELSE Just([insight  |-> s.selectedInsight[1],
               deepDive |-> s.selectedInsight[1].deep_dive_content])

\* DeepDiveSheet's onClose
onClose(s) == [s EXCEPT !.selectedInsight = null]

\* History kept for the properties: the last HistoryDepth handlers run, the
\* number of decisions and the number of undos (counted up to a cap).
HistoryDepth == 2
DecideCap == MaxCardTop + MaxAdditional + 2
UndoCap == 2

Remember(ops, op) ==
    IF Len(ops) < HistoryDepth THEN Append(ops, op) ELSE Append(Tail(ops), op)

Upto(n, cap) == IF n < cap THEN n + 1 ELSE cap

InitCard ==
    /\ currentIndex = 0
    /\ showingAdditional = FALSE
    /\ skippedInsights = <<>>
    /\ savedInsights = <<>>
    /\ selectedInsight = null
    /\ lastAction = null
    /\ cardOps = <<>>
    /\ nDecide = 0
    /\ nUndo = 0
    /\ released = null

\* The component re-renders with state s.
SetCardState(s) ==
    /\ currentIndex' = s.currentIndex
    /\ showingAdditional' = s.showingAdditional
    /\ skippedInsights' = s.skippedInsights
    /\ savedInsights' = s.savedInsights
    /\ selectedInsight' = s.selectedInsight
    /\ lastAction' = s.lastAction

\* The callbacks CardStack passes to the buttons and to the top card.
onSwipeLeft ==
    /\ SetCardState(handleSwipeLeft(CardState))
    /\ cardOps' = Remember(cardOps, "skip")
    /\ nDecide' = Upto(nDecide, DecideCap)
    /\ UNCHANGED nUndo

onSwipeRight ==
    /\ SetCardState(handleSwipeRight(CardState))
    /\ cardOps' = Remember(cardOps, "save")
    /\ nDecide' = Upto(nDecide, DecideCap)
    /\ UNCHANGED nUndo

\* The Skip and Save buttons are rendered only while the deck is not finished.
ClickSkip == ~isFinished(CardState) /\ onSwipeLeft

ClickSave == ~isFinished(CardState) /\ onSwipeRight

\* SwipeableCard.handleDragEnd: which callback a release with this horizontal
\* offset and velocity invokes.
threshold == 100
velocityThreshold == 500

\* handleDragEnd with the rightward test first.
handleDragEnd_rightFirst(offset, velocity) ==
    IF offset > threshold \/ velocity > velocityThreshold
    THEN "right"
    ELSE IF offset < -threshold \/ velocity < -velocityThreshold
         THEN "left"
         ELSE "none"

handleDragEnd(offset, velocity) ==
    IF offset < -threshold \/ velocity < -velocityThreshold
    THEN "left"
    ELSE IF offset > threshold \/ velocity > velocityThreshold
         THEN "right"
         ELSE "none"

Offsets    == {-101, -100, -50, 0, 50, 100, 101}
Velocities == {-600, -500, 0, 500, 600}

\* A drag of the top card is released; only the first of visibleCards is
\* draggable, so there is one only while the deck is not finished.
DragEnd(offset, velocity) ==
    /\ visibleCards(CardState) # <<>>
    /\ LET direction == handleDragEnd(offset, velocity) IN
       \/ direction = "left" /\ onSwipeLeft
       \/ direction = "right" /\ onSwipeRight
       \/ direction = "none" /\ UNCHANGED cardVars

\* The Undo button rendered in the finished state as well.
ClickUndo_whenFinished ==
    /\ lastAction # null
    /\ SetCardState(handleUndo(CardState))
    /\ cardOps' = Remember(cardOps, "undo")
    /\ nUndo' = Upto(nUndo, UndoCap)
    /\ UNCHANGED nDecide

\* The Undo button is rendered only while the deck is not finished and is
\* disabled while there is no lastAction.
ClickUndo ==
    /\ ~isFinished(CardState)
    /\ lastAction # null
    /\ SetCardState(handleUndo(CardState))
    /\ cardOps' = Remember(cardOps, "undo")
    /\ nUndo' = Upto(nUndo, UndoCap)
    /\ UNCHANGED nDecide

\* The "Show more" button is part of the finished state.
ClickShowMore ==
    /\ isFinished(CardState)
    /\ hasMoreToShow(CardState)
    /\ SetCardState(handleShowMore(CardState))
    /\ cardOps' = Remember(cardOps, "showMore")
    /\ UNCHANGED <<nDecide, nUndo>>

\* The sheet is rendered while an insight is selected.
CloseSheet ==
    /\ selectedInsight # null
    /\ SetCardState(onClose(CardState))
    /\ cardOps' = Remember(cardOps, "close")
    /\ UNCHANGED <<nDecide, nUndo>>

\* The deck worked by drags of the top card, with each release remembered.
Release(offset, velocity) ==
    /\ DragEnd(offset, velocity)
    /\ released' = Just([offset |-> offset, velocity |-> velocity, before |-> CardState])

NextSwipe ==
    \/ \E offset \in Offsets, velocity \in Velocities :
           Release(offset, velocity) /\ UNCHANGED hostVars
    \/ ClickUndo /\ released' = null /\ UNCHANGED hostVars
    \/ ClickShowMore /\ released' = null /\ UNCHANGED hostVars

\* CardStack worked by its Skip, Save and "Show more" buttons.
NextCardButtons ==
    \/ ClickSkip /\ UNCHANGED nonCardVars
    \/ ClickSave /\ UNCHANGED nonCardVars
    \/ ClickShowMore /\ UNCHANGED nonCardVars

NextCard ==
    \/ ClickSkip /\ UNCHANGED nonCardVars
    \/ ClickSave /\ UNCHANGED nonCardVars
    \/ \E offset \in Offsets, velocity \in Velocities :
           DragEnd(offset, velocity) /\ UNCHANGED nonCardVars
    \/ ClickUndo /\ UNCHANGED nonCardVars
    \/ ClickShowMore /\ UNCHANGED nonCardVars
    \/ CloseSheet /\ UNCHANGED nonCardVars


-----------------------------------------------------------------------------
(* useInsightInteraction: filter mode *)

\* The hook's React state as one value.
ListState ==
    [skippedIds        |-> skippedIds,
     expandedId        |-> expandedId,
     showingAdditional |-> listShowingAdditional,
     lastSkippedId     |-> lastSkippedId]

InitialListState ==
    [skippedIds        |-> {},
     expandedId        |-> null,
     showingAdditional |-> FALSE,
     lastSkippedId     |-> null]

\* The hook's allInsights is the same expression as CardStack's, over the
\* hook's own showingAdditional.
listAllInsights(s) ==
    IF s.showingAdditional THEN topInsights \o additionalInsights ELSE topInsights

\* visibleInsights filtering the primary tier whatever showingAdditional is.
visibleInsights_topOnly(s) ==
    SelectSeq(topInsights, LAMBDA i : i.id \notin s.skippedIds)

visibleInsights(s) ==
    SelectSeq(listAllInsights(s), LAMBDA i : i.id \notin s.skippedIds)

hasMore(s) == ~s.showingAdditional /\ Len(additionalInsights) > 0

skippedCount(s) == Cardinality(s.skippedIds)

\* The operations, as the state they leave from state s.
\* skipInsight without its setExpandedId.
skipInsight_keepsFocus(s, id) ==
    [s EXCEPT !.skippedIds = @ \cup {id},
              !.lastSkippedId = Just(id)]

\* skipInsight recording the id without adding it to the skip set.
skipInsight_recordsOnly(s, id) ==
    [s EXCEPT !.lastSkippedId = Just(id),
              !.expandedId = IF @ = Just(id) THEN null ELSE @]

skipInsight(s, id) ==
    [s EXCEPT !.skippedIds = @ \cup {id},
              !.lastSkippedId = Just(id),
              !.expandedId = IF @ = Just(id) THEN null ELSE @]

\* undoSkip without its newSet.delete(lastSkippedId).
undoSkip_keepsId(s) ==
    IF s.lastSkippedId # null /\ s.lastSkippedId # Just("")
    THEN [s EXCEPT !.lastSkippedId = null]
    ELSE s

\* undoSkip emptying the skip set instead of deleting one id from it.
undoSkip_clearsAll(s) ==
    IF s.lastSkippedId # null /\ s.lastSkippedId # Just("")
    THEN [s EXCEPT !.skippedIds = {},
                   !.lastSkippedId = null]
    ELSE s

\* if (lastSkippedId): null and the empty string are falsy.
undoSkip(s) ==
    IF s.lastSkippedId # null /\ s.lastSkippedId # Just("")
    THEN [s EXCEPT !.skippedIds = @ \ {s.lastSkippedId[1]},
                   !.lastSkippedId = null]
    ELSE s

\* expandInsight closing the focus it is called on again.
expandInsight_toggles(s, id) ==
    [s EXCEPT !.expandedId = IF @ = Just(id) THEN null ELSE Just(id)]

expandInsight(s, id) == [s EXCEPT !.expandedId = Just(id)]

collapseInsight(s) == [s EXCEPT !.expandedId = null]

\* showMore flipping the flag instead of setting it.
showMore_toggles(s) == [s EXCEPT !.showingAdditional = ~@]

showMore(s) == [s EXCEPT !.showingAdditional = TRUE]

\* The ids the hook's operations are called with: those of the two tiers and
\* one that belongs to no tier (an id of an earlier result).
StaleId == "Z"
CallIds == IdsOf(topInsights) \cup IdsOf(additionalInsights) \cup {StaleId}

InitList ==
    /\ skippedIds = {}
    /\ expandedId = null
    /\ listShowingAdditional = FALSE
    /\ lastSkippedId = null
    /\ listOp = [name |-> "mount", id |-> null]
    /\ listPrev = InitialListState

\* The hook re-renders with state s after operation name(id).
SetListState(s, name, id) ==
    /\ skippedIds' = s.skippedIds
    /\ expandedId' = s.expandedId
    /\ listShowingAdditional' = s.showingAdditional
    /\ lastSkippedId' = s.lastSkippedId
    /\ listOp' = [name |-> name, id |-> id]
    /\ listPrev' = ListState

CallSkipInsight(id) == SetListState(skipInsight(ListState, id), "skipInsight", Just(id))

CallUndoSkip == SetListState(undoSkip(ListState), "undoSkip", null)

CallExpandInsight(id) == SetListState(expandInsight(ListState, id), "expandInsight", Just(id))

CallCollapseInsight == SetListState(collapseInsight(ListState), "collapseInsight", null)

CallShowMore == SetListState(showMore(ListState), "showMore", null)

\* The hook's operations with a skip that moves CardStack's cursor on as well.
NextList_skipAdvancesCursor ==
    \/ \E id \in CallIds :
           /\ CallSkipInsight(id)
           /\ currentIndex' = currentIndex + 1
           /\ UNCHANGED <<analysisVars, viewVars, deckVars, showingAdditional, skippedInsights, savedInsights,
                          selectedInsight, lastAction, cardOps, nDecide, nUndo, released>>
    \/ CallUndoSkip /\ UNCHANGED nonListVars
    \/ \E id \in CallIds : CallExpandInsight(id) /\ UNCHANGED nonListVars
    \/ CallCollapseInsight /\ UNCHANGED nonListVars
    \/ CallShowMore /\ UNCHANGED nonListVars

NextList ==
    \/ \E id \in CallIds : CallSkipInsight(id) /\ UNCHANGED nonListVars
    \/ CallUndoSkip /\ UNCHANGED nonListVars
    \/ \E id \in CallIds : CallExpandInsight(id) /\ UNCHANGED nonListVars
    \/ CallCollapseInsight /\ UNCHANGED nonListVars
    \/ CallShowMore /\ UNCHANGED nonListVars

\* InsightsSection: what its cards and buttons call.  A card is rendered for
\* each visible insight; its deep-dive button toggles the focus.
handleDeepDive(s, id) ==
    IF s.expandedId = Just(id) THEN collapseInsight(s) ELSE expandInsight(s, id)

ClickDeepDive(id) ==
    /\ id \in IdsOf(visibleInsights(ListState))
    /\ SetListState(handleDeepDive(ListState, id), "handleDeepDive", Just(id))

ClickCardSkip(id) ==
    /\ id \in IdsOf(visibleInsights(ListState))
    /\ CallSkipInsight(id)

\* "Show more" is rendered while hasMore.
ClickListShowMore == hasMore(ListState) /\ CallShowMore

\* InsightsSection worked by the buttons of its cards and by "Show more".
NextInsightsSection ==
    \/ \E id \in CallIds : ClickDeepDive(id) /\ UNCHANGED nonListVars
    \/ \E id \in CallIds : ClickCardSkip(id) /\ UNCHANGED nonListVars
    \/ ClickListShowMore /\ UNCHANGED nonListVars

-----------------------------------------------------------------------------
(* Specifications *)

\* No deck is mounted while only the analysis is looked at.
NoDeck ==
    /\ topInsights = <<>>
    /\ additionalInsights = <<>>

\* The mounted mode is in the state it was mounted with.
MountedIsInitial ==
    IF viewMode = "swipe"
    THEN CardState = InitialCardState
    ELSE ListState = InitialListState

\* ResultsView keeping both CardStack and InsightsSection mounted and showing
\* one of them.
setViewMode_keepsMounted(mode) ==
    /\ viewMode' = mode
    /\ UNCHANGED <<cardVars, released, listVars>>

\* ResultsView: one of CardStack and InsightsSection is mounted, by viewMode.
\* setViewMode(mode) with another mode unmounts the one and mounts the other,
\* each time with the initial state of its useState calls; with the same mode
\* nothing is rendered anew.
setViewMode(mode) ==
    IF mode = viewMode
    THEN UNCHANGED <<viewMode, cardVars, released, listVars>>
    ELSE /\ viewMode' = mode
         /\ released' = null
         /\ SetCardState(InitialCardState)
         /\ cardOps' = <<>>
         /\ nDecide' = 0
         /\ nUndo' = 0
         /\ skippedIds' = InitialListState.skippedIds
         /\ expandedId' = InitialListState.expandedId
         /\ listShowingAdditional' = InitialListState.showingAdditional
         /\ lastSkippedId' = InitialListState.lastSkippedId
         /\ listOp' = [name |-> "mount", id |-> null]
         /\ listPrev' = InitialListState

NextResults ==
    \/ viewMode = "swipe" /\ NextCard
    \/ viewMode = "list" /\ NextList
    \/ \E mode \in {"swipe", "list"} :
           setViewMode(mode) /\ UNCHANGED <<analysisVars, deckVars, discarded>>

\* ResultsView worked by the buttons of the mounted mode and by the view
\* toggle, with the modes remembered whose state a switch has discarded.
NextView ==
    \/ viewMode = "swipe" /\ ClickSkip /\ UNCHANGED nonCardVars
    \/ viewMode = "swipe" /\ ClickSave /\ UNCHANGED nonCardVars
    \/ viewMode = "swipe" /\ ClickUndo /\ UNCHANGED nonCardVars
    \/ viewMode = "swipe" /\ ClickShowMore /\ UNCHANGED nonCardVars
    \/ viewMode = "swipe" /\ CloseSheet /\ UNCHANGED nonCardVars
    \/ viewMode = "list" /\ NextInsightsSection
    \/ \E mode \in {"swipe", "list"} :
           /\ setViewMode(mode)
           /\ discarded' = IF mode = viewMode \/ MountedIsInitial
                            THEN discarded
                            ELSE discarded \cup {viewMode}
           /\ UNCHANGED <<analysisVars, deckVars>>

\* Home: the form is rendered while nothing is loading and there is no result,
\* ResultsView while there is a result and nothing is loading.
\* Home rendering the form whatever the state of the analysis.
UrlInputMounted_always == TRUE

UrlInputMounted == ~isLoading /\ result = null

ResultsViewMounted == result # null /\ ~isLoading

\* CardStack or InsightsSection mounted anew: every useState at its initial
\* value, ResultsView in swipe mode.
MountResultsView ==
    /\ viewMode' = "swipe"
    /\ discarded' = {}
    /\ SetCardState(InitialCardState)
    /\ cardOps' = <<>>
    /\ nDecide' = 0
    /\ nUndo' = 0
    /\ released' = null
    /\ skippedIds' = InitialListState.skippedIds
    /\ expandedId' = InitialListState.expandedId
    /\ listShowingAdditional' = InitialListState.showingAdditional
    /\ lastSkippedId' = InitialListState.lastSkippedId
    /\ listOp' = [name |-> "mount", id |-> null]
    /\ listPrev' = InitialListState

\* The tiers of the response that became the result: a primary tier that is
\* not empty and a secondary tier.
ResponseTiers ==
    \E n \in 1..MaxHomeTop, m \in 0..MaxAdditional :
        /\ topInsights' = TopTier(n, 0)
        /\ additionalInsights' = AdditionalTier(n, m, 0)

\* Home re-renders after a change of useAnalysis' state.  A ResultsView that
\* appears is mounted on the tiers of the response, with the initial state of
\* every useState below it; one that disappears loses that state; one that
\* stays keeps it, whatever happens to its props.
HomeRender ==
    IF ResultsViewMounted'
    THEN IF ResultsViewMounted
         THEN /\ IF result' = result THEN UNCHANGED deckVars ELSE ResponseTiers
              /\ UNCHANGED <<viewVars, cardVars, released, listVars>>
         ELSE ResponseTiers /\ MountResultsView
    ELSE /\ topInsights' = <<>>
         /\ additionalInsights' = <<>>
         /\ MountResultsView

\* The form is submitted with a URL typed in.
handleAnalyze == UrlInputMounted /\ analyze /\ HomeRender

\* "Analyze another" of ResultsView.
handleReset == ResultsViewMounted /\ reset /\ HomeRender

NextHome ==
    \/ handleAnalyze
    \/ \E i \in DOMAIN calls : progressInterval(i) /\ HomeRender
    \/ \E i \in DOMAIN calls : analyzeResolved(i) /\ HomeRender
    \/ \E i \in DOMAIN calls : holdElapsed(i) /\ HomeRender
    \/ \E i \in DOMAIN calls, err \in Rejections : analyzeRejected(i, err) /\ HomeRender
    \/ handleReset
    \/ ResultsViewMounted /\ viewMode = "swipe" /\ NextCardButtons
    \/ ResultsViewMounted /\ viewMode = "list" /\ NextInsightsSection
    \/ /\ ResultsViewMounted
       /\ \E mode \in {"swipe", "list"} :
              setViewMode(mode) /\ UNCHANGED <<analysisVars, deckVars, discarded>>

\* useAnalysis as mounted by Home, before any result.
\* ResultsView shows this mode and nothing was unmounted yet.
InitView(mode) == viewMode = mode /\ discarded = {}

InitApp == InitAnalysis /\ InitView("swipe") /\ NoDeck /\ InitCard /\ InitList

\* CardStack mounted on a result's tiers.
InitSwipeView ==
    InitAnalysis /\ InitView("swipe") /\ DeckUpTo(MaxCardTop) /\ InitCard /\ InitList

\* InsightsSection mounted on a result's tiers.
InitListView == InitAnalysis /\ InitView("list") /\ InitDeck /\ InitCard /\ InitList

\* ResultsView mounted on a result: it starts in swipe mode.
InitResults == InitAnalysis /\ InitView("swipe") /\ InitDeck /\ InitCard /\ InitList

SpecAnalysis == InitApp /\ [][NextAnalysis]_vars

SpecAnalysisFair == InitApp /\ [][NextAnalysis]_vars /\ FairAnalysis

SpecCard == InitSwipeView /\ [][NextCard]_vars

SpecList == InitListView /\ [][NextList]_vars

SpecResults == InitResults /\ [][NextResults]_vars

SpecSwipe == InitResults /\ [][NextSwipe]_vars

SpecView == InitResults /\ [][NextView]_vars

SpecHome == InitApp /\ [][NextHome]_vars

-----------------------------------------------------------------------------
(* Properties of useAnalysis (checked under SpecAnalysis) *)

\* C1: when the request of a call has failed, that call's progress timer is
\* cancelled and, until the next start, the phase is idle: no tick after the
\* failure changes the progress state.
C1_FailureCancelsTimer ==
    \A i \in DOMAIN calls :
        calls[i].pc = "failed" =>
            /\ ~calls[i].interval
            /\ i = Len(calls) => progress.step = "idle"

\* C2: after any sequence of starts, ticks and settlements at most one progress
\* timer is active.
C2_AtMostOneTimer == Cardinality(ActiveTimers) <= 1

\* A step of call i: its interval fired or its request or its hold settled.
StepOf(i) == Len(calls') = Len(calls) /\ calls'[i] # calls[i]

\* C21: a new start preempts the previous request: once a later analysis has
\* been started, no tick of an earlier call's timer and no settlement of an
\* earlier call changes the phase, the result, the error or the loading flag.
C21_StartPreempts ==
    [][\A i \in DOMAIN calls :
           (i < Len(calls) /\ StepOf(i)) =>
               UNCHANGED <<progress, result, error, errorCode, isLoading>>]_vars

\* C22: on success the timer is cancelled and the phase is complete at 100%
\* before the result is exposed: the result is set only when the hold elapses,
\* and throughout the hold of the request started last the phase is complete,
\* the result is null and loading is true.
C22_HoldBeforeResult ==
    [][LET last == Len(calls) IN
       /\ \A i \in DOMAIN calls :
              (StepOf(i) /\ calls[i].pc = "awaitApi" /\ calls'[i].pc = "hold") =>
                  /\ ~calls'[i].interval
                  /\ progress' = ProgressOf("complete")
                  /\ progress'.percent = 100
                  /\ i = last => (result' = null /\ isLoading')
       /\ (result' # result /\ result' # null) =>
              \E i \in DOMAIN calls :
                  StepOf(i) /\ calls[i].pc = "hold" /\ calls'[i].pc = "done"
       /\ (/\ last >= 1
           /\ Len(calls') = last
           /\ calls[last].pc = "hold"
           /\ calls'[last].pc = "hold"
           /\ \E i \in DOMAIN calls : StepOf(i)) =>
              UNCHANGED <<progress, result, isLoading>>]_vars

NextPhase(step) ==
    CASE step = "fetching" -> "transcript"
      [] step = "transcript" -> "analyzing"
      [] step = "analyzing" -> "generating"
      [] OTHER -> step

\* C23: between a start and the settlement of its request (also a start after
\* an earlier request failed) each tick moves the phase one step along
\* fetching, transcript, analyzing, generating: never backwards, never over a
\* step, not past generating; the phase becomes complete only when a request
\* resolves.
C23_PhaseAdvancesInOrder ==
    [][LET last == Len(calls) IN
       /\ (/\ last >= 1
           /\ Len(calls') = last
           /\ calls[last].pc = "awaitApi"
           /\ calls'[last].pc = "awaitApi"
           /\ progress.step # "idle"
           /\ \E i \in DOMAIN calls : StepOf(i)) =>
              progress'.step \in {progress.step, NextPhase(progress.step)}
       /\ (progress'.step = "complete" /\ progress.step # "complete") =>
              \E i \in DOMAIN calls :
                  StepOf(i) /\ calls[i].pc = "awaitApi" /\ calls'[i].pc = "hold"]_vars

\* C24: a rejected request leaves a failure state distinct from success: error
\* is set, result is null and loading is false; and in no reachable state are
\* result and error both set.
C24_FailureDistinctFromSuccess ==
    /\ ~(result # null /\ error # null)
    /\ (/\ Len(calls) >= 1
        /\ calls[Len(calls)].pc = "failed"
        /\ error # null) => (result = null /\ ~isLoading)

\* C25: right after every start of an analysis the phase is fetching and the
\* percentage is 0.
C25_StartAtFetchingBaseline ==
    [][Len(calls') > Len(calls) =>
           /\ progress'.step = "fetching"
           /\ progress'.percent = 0]_vars

\* C27: the progress simulation does not alter the request: a tick of a timer
\* changes the progress state only, and the cancellation of a timer, which
\* comes with the resolution of its request, leaves the result, the error and
\* the loading flag as they were.
C27_ProgressLeavesRequest ==
    [][\A i \in DOMAIN calls :
           /\ (StepOf(i) /\ calls'[i].progressIndex # calls[i].progressIndex) =>
                  /\ calls' = [calls EXCEPT ![i].progressIndex = @ + 1]
                  /\ UNCHANGED <<result, error, errorCode, isLoading>>
           /\ (StepOf(i) /\ calls[i].interval /\ ~calls'[i].interval) =>
                  /\ calls' = [calls EXCEPT ![i].pc = "hold", ![i].interval = FALSE]
                  /\ calls[i].pc = "awaitApi"
                  /\ UNCHANGED <<result, error, errorCode, isLoading>>]_vars

\* C27 witness: the timer of the only request has ticked twice and the request
\* is still pending, loading, without result or error.
C27_Witness ==
    /\ Len(calls) = 1
    /\ calls[1].pc = "awaitApi"
    /\ calls[1].progressIndex = 2
    /\ progress = ProgressOf("analyzing")
    /\ isLoading
    /\ result = null
    /\ error = null

Settled == ~isLoading /\ (result # null \/ error # null)

\* C31: under fairness every start of an analysis is eventually followed by a
\* state in which loading is false and the result or the error is non-null.
C31_StartEventuallySettles ==
    \A n \in 1..MaxCalls :
        (Len(calls) = n /\ calls[n].pc = "awaitApi") ~> Settled

\* C31 witness: a request failed, a later one succeeded, and the hook shows
\* the result with loading false.
C31_Witness ==
    /\ Len(calls) = 2
    /\ calls[1].pc = "failed"
    /\ calls[2].pc = "done"
    /\ Settled
    /\ result = Just(ResponseOf(2))

-----------------------------------------------------------------------------
(* Properties of CardStack (checked under SpecCard) *)

LastOp == IF cardOps = <<>> THEN "mount" ELSE cardOps[Len(cardOps)]
PrevOp == IF Len(cardOps) < 2 THEN "mount" ELSE cardOps[Len(cardOps) - 1]

current(s) == At(allInsights(s), s.currentIndex)

IsPrefix(a, b) == Len(a) <= Len(b) /\ a = SubSeq(b, 1, Len(a))

\* C3: from every reachable state with a current insight x, for either kind of
\* decision, decide followed by undo leaves the cursor at its previous value,
\* x current again, and the id of x in neither the saved nor the skipped record.
C3_UndoInvertsDecide ==
    LET s == CardState
        x == current(s)
    IN  ~isFinished(s) =>
            \A decided \in {handleSwipeLeft(s), handleSwipeRight(s)} :
                LET u == handleUndo(decided) IN
                /\ u.currentIndex = s.currentIndex
                /\ current(u) = x
                /\ x.id \notin IdsOf(u.skippedInsights) \cup IdsOf(u.savedInsights)

\* C3 witness: an undo has just reversed a save while an earlier decision stays.
C3_Witness ==
    /\ PrevOp = "save"
    /\ LastOp = "undo"
    /\ currentIndex = 1
    /\ current(CardState) = topInsights[2]
    /\ savedInsights = <<>>
    /\ Len(skippedInsights) = 1

\* C4: from a fresh deck, after N decisions and no undo the cursor is N; one
\* undo after those N >= 1 decisions leaves it at N - 1; a decision advances the
\* cursor by exactly 1, skip or save.
C4_CursorCountsDecisions ==
    LET s == CardState IN
    /\ nUndo = 0 => currentIndex = nDecide
    /\ (nUndo = 1 /\ LastOp = "undo") => (nDecide >= 1 /\ currentIndex = nDecide - 1)
    /\ ~isFinished(s) =>
           /\ handleSwipeLeft(s).currentIndex = s.currentIndex + 1
           /\ handleSwipeRight(s).currentIndex = s.currentIndex + 1

\* C4 witness: two decisions, one of each kind, then the one undo.
C4_Witness ==
    /\ nDecide = 2
    /\ nUndo = 1
    /\ LastOp = "undo"
    /\ currentIndex = 1
    /\ Len(skippedInsights) + Len(savedInsights) = 1

\* C5: undo is one level deep.  Without a stored decision undo changes
\* nothing; a second undo in a row changes nothing; undo lowers the cursor by
\* at most one and takes at most the last element off one record, so every
\* earlier decision stays recorded; a new decision replaces the stored one.
C5_UndoOneLevel ==
    LET s  == CardState
        u  == handleUndo(s)
        uu == handleUndo(u)
    IN  /\ s.lastAction = null => u = s
        /\ uu = u
        /\ u.currentIndex >= s.currentIndex - 1
        /\ IsPrefix(u.skippedInsights, s.skippedInsights)
        /\ IsPrefix(u.savedInsights, s.savedInsights)
        /\ Len(u.skippedInsights) + Len(u.savedInsights)
               >= Len(s.skippedInsights) + Len(s.savedInsights) - 1
        /\ ~isFinished(s) =>
               /\ handleSwipeLeft(s).lastAction
                      = Just([type |-> "skip", insight |-> current(s)])
               /\ handleSwipeRight(s).lastAction
                      = Just([type |-> "save", insight |-> current(s)])

\* C5 witness: right after an undo, with an earlier decision still recorded
\* and nothing stored to undo.
C5_Witness ==
    /\ LastOp = "undo"
    /\ lastAction = null
    /\ currentIndex >= 1
    /\ Len(skippedInsights) + Len(savedInsights) = currentIndex

\* C6: the cursor is always within 0..length of the working sequence, and a
\* decision taken when the cursor is terminal changes nothing: not the cursor,
\* the records, the stored decision or the focus.
C6_TerminalDecideIsNoOp ==
    LET s == CardState IN
    /\ currentIndex \in 0..Len(allInsights(s))
    /\ isFinished(s) =>
           /\ handleSwipeLeft(s) = s
           /\ handleSwipeRight(s) = s

Min(a, b) == IF a < b THEN a ELSE b

\* C13: revealSecondary is idempotent and does not disturb decisions: a second
\* call gives the same working sequence (primary ++ secondary) as the first; the
\* cursor, both records and the stored decision are left alone and the decided
\* prefix stays as it was; on a finished deck with a non-empty, unrevealed
\* secondary tier the deck is not finished afterwards and the current insight
\* is the first secondary one.
C13_RevealKeepsDecisions ==
    LET s  == CardState
        r  == handleShowMore(s)
        rr == handleShowMore(r)
    IN  /\ rr = r
        /\ allInsights(r) = topInsights \o additionalInsights
        /\ allInsights(rr) = allInsights(r)
        /\ r.currentIndex = s.currentIndex
        /\ r.savedInsights = s.savedInsights
        /\ r.skippedInsights = s.skippedInsights
        /\ r.lastAction = s.lastAction
        /\ IsPrefix(allInsights(s), allInsights(r))
        /\ SliceTo(allInsights(r), r.currentIndex) = SliceTo(allInsights(s), s.currentIndex)
        /\ (isFinished(s) /\ ~s.showingAdditional /\ additionalInsights # <<>>) =>
               /\ ~isFinished(r)
               /\ current(r) = additionalInsights[1]

\* C13 witness: every primary insight was decided, the secondary tier has just
\* been revealed, and its first insight is the current one.
C13_Witness ==
    /\ LastOp = "showMore"
    /\ showingAdditional
    /\ Len(topInsights) >= 2
    /\ currentIndex = Len(topInsights)
    /\ Len(savedInsights) + Len(skippedInsights) = currentIndex
    /\ ~isFinished(CardState)
    /\ current(CardState) = additionalInsights[1]

\* C16: finished is reported exactly when the cursor equals the length of the
\* working sequence, and then the saved count plus the skipped count shown is
\* that length.
C16_FinishedAtLength ==
    LET s == CardState IN
    /\ isFinished(s) <=> currentIndex = Len(allInsights(s))
    /\ isFinished(s) =>
           Len(savedInsights) + Len(skippedInsights) = Len(allInsights(s))

\* C16 witness: a deck finished by at least one save and at least one skip.
C16_Witness ==
    /\ isFinished(CardState)
    /\ currentIndex = Len(allInsights(CardState))
    /\ Len(savedInsights) >= 1
    /\ Len(skippedInsights) >= 1

\* C17: the look-ahead window is the slice of the working sequence from the
\* cursor to min(cursor + 3, length): at most 3 insights in order, the first of
\* them the current insight, and none exactly when the deck is finished.
C17_WindowIsSlice ==
    LET s   == CardState
        all == allInsights(s)
        w   == visibleCards(s)
    IN  /\ w = SubSeq(all, currentIndex + 1, Min(currentIndex + 3, Len(all)))
        /\ Len(w) <= 3
        /\ w # <<>> => w[1] = current(s)
        /\ w = <<>> <=> isFinished(s)

\* C17 witness: more than three insights remain after a decision and its undo,
\* and the window holds the first three of them.
C17_Witness ==
    /\ LastOp = "undo"
    /\ Len(remainingInsights(CardState)) > 3
    /\ Len(visibleCards(CardState)) = 3
    /\ visibleCards(CardState)[1] = current(CardState)
    /\ visibleCards(CardState)[3] = allInsights(CardState)[currentIndex + 3]

\* C18: a save of the current insight x focuses the detail view on x, whatever
\* was focused before and whether or not x has a deep dive; a skip leaves the
\* focus as it was.
C18_SaveOpensDetail ==
    LET s == CardState
        x == current(s)
    IN  ~isFinished(s) =>
            /\ handleSwipeRight(s).selectedInsight = Just(x)
            /\ isOpen(handleSwipeRight(s))
            /\ DeepDiveSheet(handleSwipeRight(s))
                   = Just([insight |-> x, deepDive |-> x.deep_dive_content])
            /\ handleSwipeLeft(s).selectedInsight = s.selectedInsight
            /\ DeepDiveSheet(handleSwipeLeft(s)) = DeepDiveSheet(s)

\* C18 witness: two saves in a row; the sheet of the first was still open and
\* is now the sheet of the second, which has no deep dive.
C18_Witness ==
    /\ PrevOp = "save"
    /\ LastOp = "save"
    /\ currentIndex = 2
    /\ savedInsights = <<topInsights[1], topInsights[2]>>
    /\ selectedInsight = Just(topInsights[2])
    /\ topInsights[2].deep_dive_content = null
    /\ DeepDiveSheet(CardState) = Just([insight |-> topInsights[2], deepDive |-> null])

\* The elements of a sequence.
Elems(arr) == {arr[k] : k \in DOMAIN arr}

\* C32: the saved and the skipped record are disjoint, hold no insight twice,
\* and together hold exactly the insights of the working sequence below the
\* cursor, so that saved count + skipped count = cursor.
C32_RecordsPartitionDecided ==
    LET s   == CardState
        all == allInsights(s)
    IN  /\ s.currentIndex \in 0..Len(all)
        /\ Elems(s.savedInsights) \cap Elems(s.skippedInsights) = {}
        /\ Cardinality(Elems(s.savedInsights)) = Len(s.savedInsights)
        /\ Cardinality(Elems(s.skippedInsights)) = Len(s.skippedInsights)
        /\ Elems(s.savedInsights) \cup Elems(s.skippedInsights)
               = {all[k] : k \in 1..s.currentIndex}
        /\ Len(s.savedInsights) + Len(s.skippedInsights) = s.currentIndex

\* C32 witness: the revealed deck is decided to its end, with insights in
\* both records, after a decision was undone and taken again.
C32_Witness ==
    /\ showingAdditional
    /\ additionalInsights # <<>>
    /\ currentIndex = Len(allInsights(CardState))
    /\ savedInsights # <<>>
    /\ skippedInsights # <<>>
    /\ nUndo >= 1

\* The record a stored decision of this type belongs to.
RecordOf(s, type) == IF type = "skip" THEN s.skippedInsights ELSE s.savedInsights

\* C33: a stored decision exists only with the cursor at 1 or more, it names
\* the insight just below the cursor, and that insight is the last element of
\* the record of the decision's type: undo drops exactly that insight.
C33_StoredDecisionIsLastRecorded ==
    LET s == CardState IN
    s.lastAction # null =>
        LET kind    == s.lastAction[1].type
            insight == s.lastAction[1].insight
            record  == RecordOf(s, kind)
            u       == handleUndo(s)
        IN  /\ s.currentIndex >= 1
            /\ insight = allInsights(s)[s.currentIndex]
            /\ record # <<>>
            /\ record[Len(record)] = insight
            /\ Append(RecordOf(u, kind), insight) = record
            /\ insight \notin Elems(u.savedInsights) \cup Elems(u.skippedInsights)
            /\ Elems(u.savedInsights) \cup Elems(u.skippedInsights)
                   = (Elems(s.savedInsights) \cup Elems(s.skippedInsights)) \ {insight}

\* C33 witness: a skip is stored after an earlier skip and a save, and it names
\* the third insight, the last of the skipped record.
C33_Witness ==
    /\ currentIndex = 3
    /\ lastAction # null
    /\ lastAction[1].type = "skip"
    /\ lastAction[1].insight = topInsights[3]
    /\ Len(skippedInsights) = 2
    /\ Len(savedInsights) = 1
    /\ skippedInsights[2] = topInsights[3]

\* C35: undo leaves the detail focus as it is.  After a save of x followed by
\* an undo, x is the current insight again and is gone from the saved record,
\* and the sheet is still open on x.
C35_UndoKeepsFocus ==
    LET s == CardState IN
    /\ handleUndo(s).selectedInsight = s.selectedInsight
    /\ ~isFinished(s) =>
           LET x == current(s)
               d == handleSwipeRight(s)
               u == handleUndo(d)
           IN  /\ d.selectedInsight = Just(x)
               /\ u.selectedInsight = Just(x)
               /\ isOpen(u)
               /\ DeepDiveSheet(u) = DeepDiveSheet(d)
               /\ u.currentIndex = s.currentIndex
               /\ current(u) = x
               /\ u.savedInsights = s.savedInsights
               /\ x \notin Elems(u.savedInsights)

\* C35 witness: the first insight was saved and the save undone; it is the
\* current insight, in no record, and the sheet is open on it.
C35_Witness ==
    /\ PrevOp = "save"
    /\ LastOp = "undo"
    /\ currentIndex = 0
    /\ savedInsights = <<>>
    /\ skippedInsights = <<>>
    /\ lastAction = null
    /\ selectedInsight = Just(topInsights[1])
    /\ current(CardState) = topInsights[1]

\* C37: through CardStack's controls a finished deck with nothing left to
\* reveal is absorbing: the cursor, the two records and the stored decision
\* never change again (only the sheet can still be closed), so the last
\* decision cannot be undone.  While a secondary tier remains to be revealed,
\* the reveal is the only step that changes any of them.
C37_FinishedDeckIsAbsorbing ==
    [][LET s == CardState IN
       /\ (isFinished(s) /\ ~hasMoreToShow(s)) =>
              /\ CardState' \in {s, onClose(s)}
              /\ isFinished(CardState') /\ ~hasMoreToShow(CardState')
       /\ (isFinished(s) /\ hasMoreToShow(s)) =>
              CardState' \in {s, onClose(s), handleShowMore(s)}]_vars

\* C37 witness: the revealed deck is decided to its end, the last decision is
\* still stored, and the sheet has been closed in the finished state.
C37_Witness ==
    /\ isFinished(CardState)
    /\ ~hasMoreToShow(CardState)
    /\ showingAdditional
    /\ additionalInsights # <<>>
    /\ lastAction # null
    /\ lastAction[1].type = "save"
    /\ LastOp = "close"
    /\ PrevOp = "save"

-----------------------------------------------------------------------------
(* Properties of useInsightInteraction (checked under SpecList) *)

visibleIds(s) == IdsOf(visibleInsights(s))

\* C7: skip(id) for an id that is not in the working sequence, or is already
\* skipped, leaves the skip set, the recorded last skip and the focus unchanged.
C7_SkipOnlyPresentUnskipped ==
    listOp.name = "skipInsight" =>
        LET id == listOp.id[1] IN
        (id \notin IdsOf(listAllInsights(listPrev)) \/ id \in listPrev.skippedIds) =>
            /\ skippedIds = listPrev.skippedIds
            /\ lastSkippedId = listPrev.lastSkippedId
            /\ expandedId = listPrev.expandedId

\* C8: expand(id) for an id that is not visible (skipped, or not in the working
\* sequence) leaves the focus unchanged.
C8_ExpandRejectsInvisible ==
    listOp.name = "expandInsight" =>
        (listOp.id[1] \notin visibleIds(listPrev) => expandedId = listPrev.expandedId)

\* C9: at most one id is focused, and a focused id is one of the visible
\* insights (working sequence minus skip set).
C9_FocusIsVisible ==
    /\ Len(expandedId) <= 1
    /\ expandedId # null => expandedId[1] \in visibleIds(ListState)

\* C10: skipping the focused insight clears the focus; skipping any other
\* insight leaves the focus unchanged.
C10_SkipClearsOwnFocus ==
    listOp.name = "skipInsight" =>
        expandedId = IF listPrev.expandedId = listOp.id
                     THEN null
                     ELSE listPrev.expandedId

\* C10 witness: the focused, visible insight has just been skipped and nothing
\* is focused.
C10_Witness ==
    /\ listOp.name = "skipInsight"
    /\ listPrev.expandedId = listOp.id
    /\ listOp.id[1] \in visibleIds(listPrev)
    /\ expandedId = null
    /\ listOp.id[1] \in skippedIds

\* C11: in every reachable state and for every visible id, skip(id) followed
\* at once by undoSkip() gives back the visible sequence from before the skip:
\* id is visible again at its place and the skip set is as it was.
C11_UndoSkipRestoresVisible ==
    LET s == ListState IN
    \A id \in visibleIds(s) :
        LET u == undoSkip(skipInsight(s, id)) IN
        /\ id \notin visibleIds(skipInsight(s, id))
        /\ visibleInsights(u) = visibleInsights(s)
        /\ u.skippedIds = s.skippedIds

\* C11 witness: the second of two visible insights was skipped and undoSkip has
\* just put it back in second place, with nothing left skipped.
C11_Witness ==
    /\ listOp.name = "undoSkip"
    /\ Len(topInsights) = 2
    /\ listPrev.lastSkippedId = Just(topInsights[2].id)
    /\ listPrev.skippedIds = {topInsights[2].id}
    /\ skippedIds = {}
    /\ visibleInsights(ListState) = topInsights

\* C12: undoSkip is one level deep.  Only the id skipped last is recorded: after
\* skip(a) then skip(b), undoSkip() takes b alone out of the skip set and a
\* stays skipped; with no recorded skip (at the start, or right after an
\* undoSkip) undoSkip() changes nothing.
C12_UndoSkipOneLevel ==
    LET s == ListState IN
    /\ \A a, b \in CallIds :
           a # b =>
               LET s2 == skipInsight(skipInsight(s, a), b)
                   u  == undoSkip(s2)
               IN  /\ s2.lastSkippedId = Just(b)
                   /\ u.skippedIds = s2.skippedIds \ {b}
                   /\ a \in u.skippedIds
                   /\ undoSkip(u) = u
    /\ undoSkip(InitialListState) = InitialListState
    /\ s.lastSkippedId = null => undoSkip(s) = s
    /\ undoSkip(undoSkip(s)) = undoSkip(s)
    /\ listOp.name = "undoSkip" => undoSkip(s) = s

\* C12 witness: two ids were skipped and undoSkip has just restored one of them;
\* the other stays skipped and no skip is recorded.
C12_Witness ==
    /\ listOp.name = "undoSkip"
    /\ Cardinality(listPrev.skippedIds) = 2
    /\ listPrev.lastSkippedId # null
    /\ skippedIds = listPrev.skippedIds \ {listPrev.lastSkippedId[1]}
    /\ Cardinality(skippedIds) = 1
    /\ lastSkippedId = null

\* C15: revealSecondary does nothing when the secondary tier is empty (the flag
\* stays false), and nothing when the tier is already revealed.
C15_RevealNoOpOnEmptyTier ==
    (/\ listOp.name = "showMore"
     /\ (additionalInsights = <<>> \/ listPrev.showingAdditional))
        => ListState = listPrev

\* C28: expand(id) on the focused id leaves the focus on id; expand of another
\* visible id replaces the focus with no collapse in between; collapse() leaves
\* no focus, also when there was none.
C28_ExpandCollapseIdempotent ==
    LET s == ListState IN
    /\ \A id \in visibleIds(s) :
           /\ expandInsight(s, id).expandedId = Just(id)
           /\ s.expandedId = Just(id) => expandInsight(s, id) = s
           /\ expandInsight(expandInsight(s, id), id) = expandInsight(s, id)
           /\ \A other \in visibleIds(s) :
                  expandInsight(expandInsight(s, other), id).expandedId = Just(id)
    /\ collapseInsight(s).expandedId = null
    /\ s.expandedId = null => collapseInsight(s) = s
    /\ collapseInsight(collapseInsight(s)) = collapseInsight(s)

\* C28 witness: one visible insight was focused and expand of another visible
\* one has just moved the focus to it.
C28_Witness ==
    /\ listOp.name = "expandInsight"
    /\ listPrev.expandedId # null
    /\ listPrev.expandedId # listOp.id
    /\ listPrev.expandedId[1] \in visibleIds(listPrev)
    /\ listOp.id[1] \in visibleIds(listPrev)
    /\ expandedId = listOp.id

\* Where x stands in the sequence arr.
IndexOf(arr, x) == CHOOSE k \in DOMAIN arr : arr[k] = x

\* C29: the visible insights are the working sequence without the skipped
\* ids, in the order of the working sequence; revealSecondary leaves the skip
\* set alone; hasMore holds exactly when the secondary tier is not empty and
\* not revealed.
C29_VisibleIsFilteredSequence ==
    LET s   == ListState
        all == listAllInsights(s)
        vis == visibleInsights(s)
    IN  /\ all = IF s.showingAdditional
                 THEN topInsights \o additionalInsights
                 ELSE topInsights
        /\ IdsOf(vis) = IdsOf(all) \ s.skippedIds
        /\ \A k \in DOMAIN vis : \E n \in DOMAIN all : vis[k] = all[n]
        /\ \A i, j \in DOMAIN vis :
               i < j => IndexOf(all, vis[i]) < IndexOf(all, vis[j])
        /\ showMore(s).skippedIds = s.skippedIds
        /\ hasMore(s) <=> (additionalInsights # <<>> /\ ~s.showingAdditional)

\* C29 witness: the secondary tier is revealed, the second primary insight is
\* skipped, and the first primary and the first secondary insight are visible
\* in that order.
C29_Witness ==
    /\ listShowingAdditional
    /\ Len(topInsights) = 2
    /\ Len(additionalInsights) = 1
    /\ topInsights[2].id \in skippedIds
    /\ visibleInsights(ListState) = <<topInsights[1], additionalInsights[1]>>
    /\ ~hasMore(ListState)

\* C34: a recorded last-skipped id is in the skip set, so undoSkip() with a
\* record present takes exactly one id, the recorded one, out of the skip set.
C34_RecordedSkipIsInSkipSet ==
    LET s == ListState
        u == undoSkip(s)
    IN  s.lastSkippedId # null =>
            /\ s.lastSkippedId[1] \in s.skippedIds
            /\ u.skippedIds = s.skippedIds \ {s.lastSkippedId[1]}
            /\ Cardinality(u.skippedIds) = Cardinality(s.skippedIds) - 1
            /\ u.lastSkippedId = null

\* C34 witness: three ids were skipped, the last of them recorded, and
\* undoSkip has just taken that one out and left the other two.
C34_Witness ==
    /\ listOp.name = "undoSkip"
    /\ listPrev.lastSkippedId # null
    /\ Cardinality(listPrev.skippedIds) = 3
    /\ Cardinality(skippedIds) = 2
    /\ skippedIds = listPrev.skippedIds \ {listPrev.lastSkippedId[1]}
    /\ lastSkippedId = null

-----------------------------------------------------------------------------
(* Properties of ResultsView with either mode mounted (checked under
   SpecResults) *)

C30_ModesKeepOwnHistory ==
    [][viewMode' = viewMode =>
           /\ <<ListState, listOp, listPrev>>' # <<ListState, listOp, listPrev>> =>
                  UNCHANGED <<currentIndex, savedInsights, skippedInsights, lastAction>>
           /\ <<CardState, cardOps>>' # <<CardState, cardOps>> =>
                  UNCHANGED <<skippedIds, lastSkippedId>>]_vars

\* C30 witness: in list mode an insight has just been skipped, and the state
\* of cursor mode is what it was.
C30_Witness ==
    /\ viewMode = "list"
    /\ listOp.name = "skipInsight"
    /\ listOp.id[1] \in skippedIds
    /\ lastSkippedId = listOp.id
    /\ currentIndex = 0
    /\ savedInsights = <<>>
    /\ skippedInsights = <<>>
    /\ lastAction = null

-----------------------------------------------------------------------------
(* Properties of ResultsView's view toggle (checked under SpecView) *)

\* C38: a switch of the view discards the state of the mode that is left.
\* The mode that is not mounted has no state but its initial one, and after a
\* switch the mode that is mounted starts from its initial state (cursor 0 and
\* empty records, or empty skip set and no recorded skip; secondary tier
\* hidden; no focus), whatever the state of the mode that was left.
C38_SwitchDiscardsModeState ==
    /\ [](/\ viewMode = "swipe" => ListState = InitialListState
          /\ viewMode = "list" => CardState = InitialCardState)
    /\ [][viewMode' # viewMode =>
              /\ CardState' = InitialCardState
              /\ ListState' = InitialListState
              /\ currentIndex' = 0
              /\ savedInsights' = <<>> /\ skippedInsights' = <<>>
              /\ skippedIds' = {} /\ lastSkippedId' = null
              /\ ~showingAdditional' /\ ~listShowingAdditional'
              /\ selectedInsight' = null /\ expandedId' = null
              /\ remainingInsights(CardState)' = topInsights
              /\ visibleInsights(ListState)' = topInsights]_vars

\* C38 witness: swipe mode was left with decisions taken, list mode was left
\* with insights skipped, and swipe mode is mounted again in its initial state.
C38_Witness ==
    /\ discarded = {"swipe", "list"}
    /\ viewMode = "swipe"
    /\ CardState = InitialCardState
    /\ ListState = InitialListState
    /\ cardOps = <<>>
    /\ visibleCards(CardState) = SliceTo(topInsights, 3)

-----------------------------------------------------------------------------
(* Properties of SwipeableCard's release of a drag (checked under SpecSwipe) *)

\* C19: a release with offset > 100 or velocity > 500 is a save, one with
\* offset < -100 or velocity < -500 is a skip, any other is none (exactly
\* +/-100 and +/-500 do not trigger); none calls neither callback and leaves
\* the deck as it was.  (101, 0) is a save, (-101, 0) a skip, (50, 0) none and
\* (0, 600) a save.
C19_ReleaseClassification ==
    released # null =>
        LET offset   == released[1].offset
            velocity == released[1].velocity
            before   == released[1].before
            save     == offset > 100 \/ velocity > 500
            skip     == offset < -100 \/ velocity < -500
        IN  /\ save => /\ handleDragEnd(offset, velocity) = "right"
                       /\ CardState = handleSwipeRight(before)
            /\ skip => /\ handleDragEnd(offset, velocity) = "left"
                       /\ CardState = handleSwipeLeft(before)
            /\ (~save /\ ~skip) =>
                       /\ handleDragEnd(offset, velocity) = "none"
                       /\ CardState = before
            /\ handleDragEnd(101, 0) = "right"
            /\ handleDragEnd(-101, 0) = "left"
            /\ handleDragEnd(50, 0) = "none"
            /\ handleDragEnd(0, 600) = "right"

Mirror(direction) ==
    CASE direction = "left" -> "right"
      [] direction = "right" -> "left"
      [] OTHER -> direction

\* C20: the classification is symmetric under mirroring: the release with the
\* negated offset and velocity gives the mirrored outcome (save for skip, skip
\* for save, none for none).
C20_MirrorSymmetry ==
    released # null =>
        handleDragEnd(-released[1].offset, -released[1].velocity)
            = Mirror(handleDragEnd(released[1].offset, released[1].velocity))

\* A release that crosses a leftward and a rightward threshold at once.
CrossesBoth(offset, velocity) ==
    \/ offset < -threshold /\ velocity > velocityThreshold
    \/ offset > threshold /\ velocity < -velocityThreshold

\* C36: a release that crosses a leftward and a rightward threshold at once is
\* a skip, the leftward test being the first, and it invokes one decision
\* callback: the insight is skipped, not saved, and the cursor moves by one.
C36_LeftwardTestWins ==
    /\ \A offset \in Offsets, velocity \in Velocities :
           CrossesBoth(offset, velocity) => handleDragEnd(offset, velocity) = "left"
    /\ released # null =>
           LET offset   == released[1].offset
               velocity == released[1].velocity
               before   == released[1].before
           IN  CrossesBoth(offset, velocity) =>
                   /\ CardState = handleSwipeLeft(before)
                   /\ currentIndex = before.currentIndex + 1
                   /\ skippedInsights = Append(before.skippedInsights, current(before))
                   /\ savedInsights = before.savedInsights
                   /\ selectedInsight = before.selectedInsight
                   /\ lastAction = Just([type |-> "skip", insight |-> current(before)])

\* C36 witness: the second card was released 101 to the right with a leftward
\* velocity of 600 and went to the skipped record.
C36_Witness ==
    /\ released # null
    /\ released[1].offset = 101
    /\ released[1].velocity = -600
    /\ released[1].before.currentIndex = 1
    /\ currentIndex = 2
    /\ skippedInsights # <<>>
    /\ skippedInsights[Len(skippedInsights)] = topInsights[2]

-----------------------------------------------------------------------------
(* Properties of Home (checked under SpecHome) *)

\* Both modes in the state a mount gives them.
FreshDeck ==
    /\ viewMode = "swipe"
    /\ CardState = InitialCardState
    /\ ListState = InitialListState

\* C26: a fresh analysis request replaces the deck.  Its start clears the
\* previous result and error; the deck of the new result starts from the
\* initial state in both modes (cursor 0, empty records, empty skip set,
\* secondary tier hidden, no focus, nothing to undo); and a result, also one
\* that follows a failure, comes with error null.
C26_FreshRequestReplacesDeck ==
    /\ [](result # null => error = null)
    /\ [][/\ Len(calls') > Len(calls) =>
                 /\ result' = null
                 /\ error' = null
                 /\ ~ResultsViewMounted'
          /\ (result' # result /\ result' # null) =>
                 /\ ResultsViewMounted'
                 /\ FreshDeck'
                 /\ error' = null]_vars

\* C26 witness: the first request failed, the second one succeeded, and its
\* result is shown with error null on a deck in its initial state.
C26_Witness ==
    /\ Len(calls) = 2
    /\ calls[1].pc = "failed"
    /\ calls[2].pc = "done"
    /\ result = Just(ResponseOf(2))
    /\ error = null
    /\ ResultsViewMounted
    /\ topInsights # <<>>
    /\ FreshDeck

====
